---- MODULE Spec2Model ----
(***************************************************************************)
(* Model of the Bedrock SRE agent: the Kubernetes tools Lambda             *)
(* (src/lambda/lambda_function.py) and the two token publishers            *)
(* (src/token_refresher/token_refresher.py, src/token_manager.py).         *)
(***************************************************************************)
EXTENDS Integers, Sequences, FiniteSets, TLC

VARIABLES
    pc,             \* position of the call under study
    call,           \* the call and its arguments
    osEnviron,      \* os.environ of the process running the gateway
    world,          \* per cluster-list position: what EKS and the cluster answer
    ret,            \* value returned by the call (or the exception it let escape)
    k8sRequests,    \* HTTP requests issued, in order
    configLookups,  \* get_kubernetes_config calls made, in order
    lambdaConfig,   \* Environment Variables of the gateway's function configuration
    lastCycle,      \* the last token publishing cycle and how it ended
    publishes,      \* number of completed update_function_configuration calls
    failedCycles,   \* number of publishing cycles that ended without a publish
    invocations     \* gateway invocations running beside the publishers

gatewayVars == <<pc, call, osEnviron, world, ret, k8sRequests, configLookups>>
storeVars == <<lambdaConfig, lastCycle, publishes, failedCycles, invocations>>
vars == <<gatewayVars, storeVars>>

\* ------------------------------------------------------------------ bounds
MaxClusters == 2
MaxConditions == 3
MaxCycles == 3

\* ------------------------------------------------------------ value domains
NoVal == "<none>"                      \* Python None / absent key
ClusterNames == {"c1", "c2"}
DefaultClusterName == "test-cluster-production"

RECURSIVE SeqsUpTo(_, _)
SeqsUpTo(S, n) ==
    IF n = 0 THEN {<<>>}
    ELSE LET shorter == SeqsUpTo(S, n - 1)
         IN  shorter \cup {Append(s, x) : s \in {t \in shorter : Len(t) = n - 1}, x \in S}

\* --------------------------------------------------- Kubernetes objects
ConditionTypes == {"Ready", "MemoryPressure", "DiskPressure"}
ConditionStatuses == {"True", "False"}
Conditions == [type : ConditionTypes, status : ConditionStatuses]

ReadyConds == <<[type |-> "MemoryPressure", status |-> "False"],
                [type |-> "Ready", status |-> "True"]>>
NotReadyConds == <<[type |-> "Ready", status |-> "False"],
                   [type |-> "MemoryPressure", status |-> "False"]>>

\* An item of a list response. complete = it carries every field the
\* projections read (metadata.name, status.phase, ...).
ItemA == [name |-> "a", phase |-> "Running", complete |-> TRUE, conditions |-> ReadyConds]
ItemB == [name |-> "b", phase |-> "Pending", complete |-> TRUE, conditions |-> NotReadyConds]
ItemBad == [name |-> "x", phase |-> NoVal, complete |-> FALSE, conditions |-> <<>>]

\* Response bodies. json: "invalid" (not JSON), "null", "falsy" ({}, [], 0),
\* "list" (a non-empty JSON array), "dict" (a non-empty JSON object).
\* pod = the object read as a single Pod (describe_pod reads its own fields).
Body(j, its, p) == [json |-> j, items |-> its, pod |-> p]
BodyInvalid == Body("invalid", <<>>, ItemBad)
BodyNull == Body("null", <<>>, ItemBad)
BodyFalsy == Body("falsy", <<>>, ItemBad)
BodyList == Body("list", <<>>, ItemBad)
BodyPod == Body("dict", <<>>, ItemA)
BodyItems == Body("dict", <<ItemA, ItemB>>, ItemBad)
BodyOneItem == Body("dict", <<ItemA>>, ItemBad)
BodyBadItem == Body("dict", <<ItemBad>>, ItemBad)
BodyMixedItems == Body("dict", <<ItemA, ItemBad>>, ItemBad)

Bodies == {BodyInvalid, BodyNull, BodyFalsy, BodyList, BodyPod, BodyItems, BodyOneItem,
           BodyBadItem, BodyMixedItems}

\* What the HTTP layer gives back: a transport failure (timeout, refused
\* connection) or a status with a body.
Http(st, b) == [transport |-> FALSE, status |-> st, body |-> b]
TransportError == [transport |-> TRUE, status |-> 0, body |-> BodyInvalid]

GatewayResponses ==
    {TransportError, Http(409, BodyInvalid), Http(201, BodyItems)}
        \cup {Http(200, b) : b \in Bodies}

\* Per position of the cluster list: does describe_cluster succeed, and what
\* does the cluster answer.
Outcomes ==
    {[describe |-> FALSE, resp |-> TransportError]}
        \cup {[describe |-> TRUE, resp |-> r] : r \in GatewayResponses}

Tokens == {NoVal, "", "tokA"}
ClusterNameSettings == {NoVal} \cup ClusterNames
Environs == [CLUSTER_NAME : ClusterNameSettings, KUBERNETES_TOKEN : Tokens]


\* ------------------------------------------------------------ Python helpers
\* dict.get(key, default) on a mapping modelled as a function.
DictGet(d, key, default) == IF key \in DOMAIN d THEN d[key] ELSE default

\* `not token` / `if pods_data:` : None, "" and empty containers are falsy.
Falsy(s) == s = NoVal \/ s = ""

\* ------------------------------------------------ get_kubernetes_config
\* describe_cluster raising is caught and gives (None, None, None); so does
\* a missing or empty KUBERNETES_TOKEN.  The CA data is returned but never
\* used by any caller and is left out.
NoConfig == [endpoint |-> NoVal, token |-> NoVal]

get_kubernetes_config_keeps_empty_token(cluster_name, env, w) ==
    IF ~w.describe THEN NoConfig
    ELSE [endpoint |-> "https://" \o cluster_name, token |-> env.KUBERNETES_TOKEN]

get_kubernetes_config(cluster_name, env, w) ==
    IF ~w.describe THEN NoConfig
    ELSE IF Falsy(env.KUBERNETES_TOKEN) THEN NoConfig
    ELSE [endpoint |-> "https://" \o cluster_name, token |-> env.KUBERNETES_TOKEN]

\* ----------------------------------------------------- make_k8s_request
\* Returns what the function returns (none = Python None, else the parsed
\* JSON value) together with the number of HTTP requests it sent.
Failed(n) == [none |-> TRUE, data |-> BodyInvalid, attempts |-> n]
Parsed(b, n) == [none |-> b.json = "null", data |-> b, attempts |-> n]

make_k8s_request(url, token, method, resp) ==
    IF method \notin {"GET", "POST"} THEN Failed(0)           \* ValueError, caught
    ELSE IF resp.transport THEN Failed(1)                      \* exception, caught
    ELSE IF resp.status = 200 \/ resp.status = 201
         THEN IF resp.body.json = "invalid" THEN Failed(1)     \* json.loads raises
              ELSE Parsed(resp.body, 1)
         ELSE Failed(1)

\* `if pods_data:` on the returned value.
Truthy(r) == ~r.none /\ r.data.json \in {"list", "dict"}

\* ------------------------------------------------ check_nodes' readiness
\* any(condition['type'] == 'Ready' and condition['status'] == 'True' ...)
RECURSIVE py_any_ready(_)
py_any_ready(conds) ==
    IF conds = <<>> THEN FALSE
    ELSE IF Head(conds).type = "Ready" /\ Head(conds).status = "True" THEN TRUE
    ELSE py_any_ready(Tail(conds))

RECURSIVE py_any_true(_)
py_any_true(conds) ==
    IF conds = <<>> THEN FALSE
    ELSE IF Head(conds).status = "True" THEN TRUE
    ELSE py_any_true(Tail(conds))

node_status_any_true(conds) == IF py_any_true(conds) THEN "Ready" ELSE "NotReady"

node_status(conds) == IF py_any_ready(conds) THEN "Ready" ELSE "NotReady"


\* ------------------------------------------------------ cluster operations
\* Accumulator of a cluster loop: the aggregate built so far, the lookups and
\* requests made so far, and whether an exception left the loop.
EmptyAcc == [results |-> <<>>, requests |-> <<>>, lookups |-> <<>>, raised |-> FALSE]

Lookup(i, name) == [pos |-> i, cluster |-> name]
Sent(i, url, token, method, r) ==
    IF r.attempts = 0 THEN <<>>
    ELSE [k \in 1..r.attempts |-> [pos |-> i, url |-> url, token |-> token, method |-> method]]

Url(endpoint, path) == [endpoint |-> endpoint, path |-> path]

\* The per-item projections; each raises KeyError on an item that lacks a
\* field it reads.
pod_info(pod) == [name |-> pod.name, status |-> pod.phase]
ns_info(ns) == [name |-> ns.name, status |-> ns.phase]
node_info(node) == [name |-> node.name, status |-> node_status(node.conditions)]

ItemsRaise(items) == \E k \in 1..Len(items) : ~items[k].complete

\* get_pods_from_cluster, lines 167-192
RECURSIVE get_pods_loop(_, _, _, _, _, _)
get_pods_loop(clusters, namespace, env, w, i, acc) ==
    IF i > Len(clusters) THEN acc
    ELSE
      LET cfg == get_kubernetes_config(clusters[i], env, w[i])
          acc1 == [acc EXCEPT !.lookups = Append(@, Lookup(i, clusters[i]))]
      IN  IF cfg.endpoint = NoVal THEN get_pods_loop(clusters, namespace, env, w, i + 1, acc1)
          ELSE
            LET api_url == IF namespace # ""
                           THEN Url(cfg.endpoint, <<"namespaces", namespace, "pods">>)
                           ELSE Url(cfg.endpoint, <<"pods">>)
                pods_data == make_k8s_request(api_url, cfg.token, "GET", w[i].resp)
                acc2 == [acc1 EXCEPT !.requests = @ \o Sent(i, api_url, cfg.token, "GET", pods_data)]
            IN  IF ~Truthy(pods_data) THEN get_pods_loop(clusters, namespace, env, w, i + 1, acc2)
                ELSE IF pods_data.data.json = "list" \/ ItemsRaise(pods_data.data.items)
                     THEN [acc2 EXCEPT !.raised = TRUE]
                ELSE get_pods_loop(clusters, namespace, env, w, i + 1,
                        [acc2 EXCEPT !.results = @ \o
                            [k \in 1..Len(pods_data.data.items) |-> pod_info(pods_data.data.items[k])]])

\* get_cluster_data_with_real_kubernetes_api, lines 215-244
RECURSIVE get_cluster_data_loop(_, _, _, _, _, _)
get_cluster_data_loop(clusters, namespace, env, w, i, acc) ==
    IF i > Len(clusters) THEN acc
    ELSE
      LET cfg == get_kubernetes_config(clusters[i], env, w[i])
          acc1 == [acc EXCEPT !.lookups = Append(@, Lookup(i, clusters[i]))]
      IN  IF cfg.endpoint = NoVal THEN get_cluster_data_loop(clusters, namespace, env, w, i + 1, acc1)
          ELSE
            LET namespaces_url == Url(cfg.endpoint, <<"namespaces">>)
                namespaces_data == make_k8s_request(namespaces_url, cfg.token, "GET", w[i].resp)
                acc2 == [acc1 EXCEPT !.requests = @ \o Sent(i, namespaces_url, cfg.token, "GET", namespaces_data)]
            IN  IF ~Truthy(namespaces_data) THEN get_cluster_data_loop(clusters, namespace, env, w, i + 1, acc2)
                ELSE IF namespaces_data.data.json = "list" \/ ItemsRaise(namespaces_data.data.items)
                     THEN [acc2 EXCEPT !.raised = TRUE]
                ELSE
                  LET namespaces == [k \in 1..Len(namespaces_data.data.items) |->
                                        ns_info(namespaces_data.data.items[k])]
                      cluster_info == [cluster_name |-> clusters[i],
                                       endpoint |-> cfg.endpoint,
                                       namespaces |-> namespaces,
                                       namespace_count |-> Len(namespaces)]
                  IN  get_cluster_data_loop(clusters, namespace, env, w, i + 1,
                          [acc2 EXCEPT !.results = Append(@, cluster_info)])

\* check_nodes, lines 270-291
RECURSIVE check_nodes_loop(_, _, _, _, _)
check_nodes_loop(clusters, env, w, i, acc) ==
    IF i > Len(clusters) THEN acc
    ELSE
      LET cfg == get_kubernetes_config(clusters[i], env, w[i])
          acc1 == [acc EXCEPT !.lookups = Append(@, Lookup(i, clusters[i]))]
      IN  IF cfg.endpoint = NoVal THEN check_nodes_loop(clusters, env, w, i + 1, acc1)
          ELSE
            LET nodes_url == Url(cfg.endpoint, <<"nodes">>)
                nodes_data == make_k8s_request(nodes_url, cfg.token, "GET", w[i].resp)
                acc2 == [acc1 EXCEPT !.requests = @ \o Sent(i, nodes_url, cfg.token, "GET", nodes_data)]
            IN  IF ~Truthy(nodes_data) THEN check_nodes_loop(clusters, env, w, i + 1, acc2)
                ELSE IF nodes_data.data.json = "list" \/ ItemsRaise(nodes_data.data.items)
                     THEN [acc2 EXCEPT !.raised = TRUE]
                ELSE check_nodes_loop(clusters, env, w, i + 1,
                        [acc2 EXCEPT !.results = @ \o
                            [k \in 1..Len(nodes_data.data.items) |-> node_info(nodes_data.data.items[k])]])

\* describe_pod, lines 314-342
RECURSIVE describe_pod_loop(_, _, _, _, _, _, _)
describe_pod_loop(clusters, pod_name, namespace, env, w, i, acc) ==
    IF i > Len(clusters) THEN acc
    ELSE
      LET cfg == get_kubernetes_config(clusters[i], env, w[i])
          acc1 == [acc EXCEPT !.lookups = Append(@, Lookup(i, clusters[i]))]
      IN  IF cfg.endpoint = NoVal THEN describe_pod_loop(clusters, pod_name, namespace, env, w, i + 1, acc1)
          ELSE
            LET pod_url == Url(cfg.endpoint, <<"namespaces", namespace, "pods", pod_name>>)
                pod_data == make_k8s_request(pod_url, cfg.token, "GET", w[i].resp)
                acc2 == [acc1 EXCEPT !.requests = @ \o Sent(i, pod_url, cfg.token, "GET", pod_data)]
            IN  IF ~Truthy(pod_data) THEN describe_pod_loop(clusters, pod_name, namespace, env, w, i + 1, acc2)
                ELSE IF pod_data.data.json = "list" \/ ~pod_data.data.pod.complete
                     THEN [acc2 EXCEPT !.raised = TRUE]
                ELSE describe_pod_loop(clusters, pod_name, namespace, env, w, i + 1,
                        [acc2 EXCEPT !.results = Append(@, pod_info(pod_data.data.pod))])


\* The response envelope of an operation.  keys = the keys of the returned
\* dict; results holds 'results' (or 'clusters' for the cluster-data
\* operation); timestamp and data_source are constant tags and left out of
\* the values.
Envelope(keys, clusters, results, requests, lookups) ==
    [keys |-> keys, error |-> <<>>, clusters_checked |-> clusters,
     results |-> results, available_paths |-> <<>>,
     requests |-> requests, lookups |-> lookups]

ResultKeys == {"timestamp", "clusters_checked", "data_source", "results"}
ErrorKeys == {"error", "timestamp", "clusters_checked", "data_source"}
ClusterKeys == {"timestamp", "clusters_checked", "data_source", "clusters", "summary"}

ErrorEnvelope(keys, clusters, acc) ==
    [Envelope(keys, clusters, <<>>, acc.requests, acc.lookups) EXCEPT !.error = <<"exception">>]

get_pods_from_cluster_propagates(clusters, namespace, env, w) ==
    LET acc == get_pods_loop(clusters, namespace, env, w, 1, EmptyAcc)
    IN  IF acc.raised
        THEN [Envelope({}, <<>>, <<>>, acc.requests, acc.lookups) EXCEPT !.error = <<"raised">>]
        ELSE Envelope(ResultKeys, clusters, acc.results, acc.requests, acc.lookups)

get_pods_from_cluster_drops_clusters(clusters, namespace, env, w) ==
    LET acc == get_pods_loop(clusters, namespace, env, w, 1, EmptyAcc)
    IN  IF acc.raised THEN ErrorEnvelope(ErrorKeys, <<>>, acc)
        ELSE Envelope(ResultKeys, clusters, acc.results, acc.requests, acc.lookups)

get_pods_from_cluster(clusters, namespace, env, w) ==
    LET acc == get_pods_loop(clusters, namespace, env, w, 1, EmptyAcc)
    IN  IF acc.raised THEN ErrorEnvelope(ErrorKeys, clusters, acc)
        ELSE Envelope(ResultKeys, clusters, acc.results, acc.requests, acc.lookups)

get_cluster_data_with_real_kubernetes_api(clusters, namespace, env, w) ==
    LET acc == get_cluster_data_loop(clusters, namespace, env, w, 1, EmptyAcc)
    IN  IF acc.raised THEN ErrorEnvelope(ClusterKeys \cup {"error"}, clusters, acc)
        ELSE Envelope(ClusterKeys, clusters, acc.results, acc.requests, acc.lookups)

check_nodes(clusters, env, w) ==
    LET acc == check_nodes_loop(clusters, env, w, 1, EmptyAcc)
    IN  IF acc.raised THEN ErrorEnvelope(ErrorKeys, clusters, acc)
        ELSE Envelope(ResultKeys, clusters, acc.results, acc.requests, acc.lookups)

describe_pod(clusters, pod_name, namespace, env, w) ==
    LET acc == describe_pod_loop(clusters, pod_name, namespace, env, w, 1, EmptyAcc)
    IN  IF acc.raised THEN ErrorEnvelope(ErrorKeys, clusters, acc)
        ELSE Envelope(ResultKeys, clusters, acc.results, acc.requests, acc.lookups)

\* ------------------------------------------------------------ lambda_handler
RecognizedPaths == {"/get-pods", "/analyze-namespace", "/get-cluster-health",
                    "/check-nodes", "/describe-pod"}
available_paths == <<"/get-pods", "/analyze-namespace", "/get-cluster-health",
                     "/check-nodes", "/describe-pod">>
ApiPaths == RecognizedPaths \cup {"/create-pod", "/restart-pod"}

\* Shapes of the inbound event:
\*   "ok"               a mapping with a list of {name, value} properties
\*   "bad_properties"   a mapping whose properties are not mappings (the
\*                      loop at lines 38-40 raises)
\*   "not_mapping"      a list or None: event.get raises at line 21
\*   "not_serializable" json.dumps(event) raises at line 18
EventShapes == {"ok", "bad_properties", "not_mapping", "not_serializable"}

Prop(n, v) == [name |-> n, value |-> v]
PropertyLists == {<<>>,
                  <<Prop("namespace", "kube-system")>>,
                  <<Prop("namespace", "kube-system"), Prop("namespace", "prod")>>,
                  <<Prop("pod_name", "web"), Prop("image", "nginx:1.25")>>}

Events == [shape : EventShapes, actionGroup : {"k8s-tools"}, apiPath : ApiPaths,
           httpMethod : {"GET", "POST"}, properties : PropertyLists]

\* lines 32-40: parameters[prop['name']] = prop['value'], in list order.
RECURSIVE extract_parameters(_, _)
extract_parameters(properties, parameters) ==
    IF properties = <<>> THEN parameters
    ELSE extract_parameters(Tail(properties),
            (Head(properties).name :> Head(properties).value) @@ parameters)

EmptyDict == [k \in {} |-> ""]

\* json.dumps of the result dict: the encoded body carries the dict's keys and
\* values and none of the bookkeeping of the model.
json_dumps(result) ==
    [keys |-> result.keys, error |-> result.error,
     clusters_checked |-> result.clusters_checked, results |-> result.results,
     available_paths |-> result.available_paths]

OutboundEnvelope(event, code, body) ==
    [messageVersion |-> "1.0", actionGroup |-> event.actionGroup,
     apiPath |-> event.apiPath, httpMethod |-> event.httpMethod,
     httpStatusCode |-> code, body |-> body]

NoEnvelope == [messageVersion |-> NoVal, actionGroup |-> NoVal, apiPath |-> NoVal,
               httpMethod |-> NoVal, httpStatusCode |-> 0,
               body |-> json_dumps(Envelope({}, <<>>, <<>>, <<>>, <<>>))]

\* What an invocation gives its caller: either a returned envelope or an
\* exception (raised), plus the lookups and requests it made.
Returned(resp, requests, lookups) ==
    [raised |-> FALSE, response |-> resp, requests |-> requests, lookups |-> lookups]
Raised == [raised |-> TRUE, response |-> NoEnvelope, requests |-> <<>>, lookups |-> <<>>]

DispatchErrorBody ==
    json_dumps([Envelope({"error", "timestamp"}, <<>>, <<>>, <<>>, <<>>)
                    EXCEPT !.error = <<"exception">>])

route_lists_create_pod(api_path, parameters, clusters, env, w) ==
    IF api_path = "/get-pods"
        THEN get_pods_from_cluster(clusters, DictGet(parameters, "namespace", ""), env, w)
    ELSE IF api_path = "/analyze-namespace"
        THEN get_cluster_data_with_real_kubernetes_api(clusters, DictGet(parameters, "namespace", ""), env, w)
    ELSE IF api_path = "/get-cluster-health"
        THEN get_cluster_data_with_real_kubernetes_api(clusters, "", env, w)
    ELSE IF api_path = "/check-nodes"
        THEN check_nodes(clusters, env, w)
    ELSE IF api_path = "/describe-pod"
        THEN describe_pod(clusters, DictGet(parameters, "pod_name", ""),
                          DictGet(parameters, "namespace", "default"), env, w)
    ELSE [Envelope({"error", "available_paths"}, <<>>, <<>>, <<>>, <<>>)
            EXCEPT !.error = <<"Unknown API path: ", api_path>>,
                   !.available_paths = <<"/create-pod">> \o available_paths]

route(api_path, parameters, clusters, env, w) ==
    IF api_path = "/get-pods"
        THEN get_pods_from_cluster(clusters, DictGet(parameters, "namespace", ""), env, w)
    ELSE IF api_path = "/analyze-namespace"
        THEN get_cluster_data_with_real_kubernetes_api(clusters, DictGet(parameters, "namespace", ""), env, w)
    ELSE IF api_path = "/get-cluster-health"
        THEN get_cluster_data_with_real_kubernetes_api(clusters, "", env, w)
    ELSE IF api_path = "/check-nodes"
        THEN check_nodes(clusters, env, w)
    ELSE IF api_path = "/describe-pod"
        THEN describe_pod(clusters, DictGet(parameters, "pod_name", ""),
                          DictGet(parameters, "namespace", "default"), env, w)
    ELSE [Envelope({"error", "available_paths"}, <<>>, <<>>, <<>>, <<>>)
            EXCEPT !.error = <<"Unknown API path: ", api_path>>,
                   !.available_paths = available_paths]

lambda_handler(event, env, w) ==
    IF event.shape \in {"not_serializable", "not_mapping"}
        \* the except branch reads action_group before it was ever bound:
        \* UnboundLocalError leaves the handler
        THEN Raised
    ELSE IF event.shape = "bad_properties"
        THEN Returned(OutboundEnvelope(event, 500, DispatchErrorBody), <<>>, <<>>)
    ELSE
      LET parameters == extract_parameters(event.properties, EmptyDict)
          clusters == <<IF env.CLUSTER_NAME = NoVal THEN DefaultClusterName
                        ELSE env.CLUSTER_NAME>>
          result == route(event.apiPath, parameters, clusters, env, w)
      IN  IF result.error = <<"raised">>
          THEN Returned(OutboundEnvelope(event, 500, DispatchErrorBody),
                        result.requests, result.lookups)
          ELSE Returned(OutboundEnvelope(event, 200, json_dumps(result)),
                        result.requests, result.lookups)


\* ===================================================================== Spec
\* One call of the gateway per behaviour: the Lambda handler on an inbound
\* event, or one cluster operation called directly on a cluster list.  The
\* inputs (the call, the process environment, what EKS and the clusters
\* answer) are drawn in Init; the action applies the function.
NoEvent == [shape |-> "ok", actionGroup |-> "k8s-tools", apiPath |-> "/restart-pod",
            httpMethod |-> "GET", properties |-> <<>>]

Call(fn, event, clusters, namespace, pod_name, method, resp, conditions) ==
    [fn |-> fn, event |-> event, clusters |-> clusters, namespace |-> namespace,
     pod_name |-> pod_name, method |-> method, resp |-> resp, conditions |-> conditions]

HandlerCall(event) == Call("lambda_handler", event, <<>>, "", "", "GET", TransportError, <<>>)
OperationCall(fn, clusters, namespace, pod_name) ==
    Call(fn, NoEvent, clusters, namespace, pod_name, "GET", TransportError, <<>>)

ClusterLists == SeqsUpTo(ClusterNames, MaxClusters)

\* What the clusters answer when an operation is called directly.
OperationOutcomes ==
    {[describe |-> FALSE, resp |-> TransportError]}
        \cup {[describe |-> TRUE, resp |-> r] :
                r \in {TransportError, Http(409, BodyInvalid), Http(200, BodyInvalid),
                       Http(200, BodyItems), Http(200, BodyBadItem), Http(200, BodyPod),
                       Http(200, BodyMixedItems)}}

GatewayCalls ==
    {HandlerCall(e) : e \in Events}
        \cup {OperationCall("get_pods_from_cluster", cl, ns, "") :
                cl \in ClusterLists, ns \in {"", "kube-system"}}
        \cup {OperationCall("get_cluster_data_with_real_kubernetes_api", cl, "", "") :
                cl \in ClusterLists}
        \cup {OperationCall("check_nodes", cl, "", "") : cl \in ClusterLists}
        \cup {OperationCall("describe_pod", cl, "default", "web") : cl \in ClusterLists}

NoRet == [raised |-> FALSE, response |-> NoEnvelope, envelope |-> NoEnvelope.body,
          value |-> Failed(0), status |-> NoVal]

HandlerRet(r) == [NoRet EXCEPT !.raised = r.raised, !.response = r.response,
                               !.envelope = r.response.body]
OperationRet(result) == [NoRet EXCEPT !.envelope = json_dumps(result)]

\* The deployed configuration of the gateway function before any publish.
DeployedConfig == [CLUSTER_NAME |-> "c1", KUBERNETES_TOKEN |-> "tok0"]
NoCycle == [who |-> NoVal, outcome |-> NoVal, fresh |-> NoVal, statusCode |-> 0,
            raised |-> FALSE, published |-> FALSE, before |-> DeployedConfig]

StoreIdle ==
    /\ lambdaConfig = DeployedConfig
    /\ lastCycle = NoCycle
    /\ publishes = 0
    /\ failedCycles = 0
    /\ invocations = <<>>

Init ==
    /\ pc = "start"
    /\ call \in GatewayCalls
    /\ osEnviron \in Environs
    /\ call.fn # "lambda_handler" => osEnviron.CLUSTER_NAME = NoVal
    /\ world \in IF call.fn = "lambda_handler" THEN [1..1 -> Outcomes]
                 ELSE [1..Len(call.clusters) -> OperationOutcomes]
    /\ ret = NoRet
    /\ k8sRequests = <<>>
    /\ configLookups = <<>>
    /\ StoreIdle

LambdaHandler ==
    /\ pc = "start"
    /\ call.fn = "lambda_handler"
    /\ LET r == lambda_handler(call.event, osEnviron, world)
       IN  /\ ret' = HandlerRet(r)
           /\ k8sRequests' = r.requests
           /\ configLookups' = r.lookups
    /\ pc' = "done"
    /\ UNCHANGED <<call, osEnviron, world, storeVars>>

Finish(result) ==
    /\ ret' = OperationRet(result)
    /\ k8sRequests' = result.requests
    /\ configLookups' = result.lookups
    /\ pc' = "done"
    /\ UNCHANGED <<call, osEnviron, world, storeVars>>

GetPodsFromCluster ==
    /\ pc = "start"
    /\ call.fn = "get_pods_from_cluster"
    /\ Finish(get_pods_from_cluster(call.clusters, call.namespace, osEnviron, world))

GetClusterData ==
    /\ pc = "start"
    /\ call.fn = "get_cluster_data_with_real_kubernetes_api"
    /\ Finish(get_cluster_data_with_real_kubernetes_api(call.clusters, call.namespace, osEnviron, world))

CheckNodes ==
    /\ pc = "start"
    /\ call.fn = "check_nodes"
    /\ Finish(check_nodes(call.clusters, osEnviron, world))

DescribePod ==
    /\ pc = "start"
    /\ call.fn = "describe_pod"
    /\ Finish(describe_pod(call.clusters, call.pod_name, call.namespace, osEnviron, world))

Next ==
    \/ LambdaHandler
    \/ GetPodsFromCluster
    \/ GetClusterData
    \/ CheckNodes
    \/ DescribePod

Spec == Init /\ [][Next]_vars


\* ------------------------------------------------- claims on the gateway
Range(f) == {f[k] : k \in DOMAIN f}

IsHandlerCall == call.fn = "lambda_handler"
IsOperationCall == call.fn \in {"get_pods_from_cluster", "check_nodes", "describe_pod",
                                "get_cluster_data_with_real_kubernetes_api"}
WellFormed == IsHandlerCall /\ call.event.shape = "ok"

\* The cluster list the call works on.
ConfiguredClusters ==
    IF IsHandlerCall
    THEN <<IF osEnviron.CLUSTER_NAME = NoVal THEN DefaultClusterName
           ELSE osEnviron.CLUSTER_NAME>>
    ELSE call.clusters

\* The operation a call runs ("" when the identifier selects none).
OperationOf ==
    IF ~IsHandlerCall THEN call.fn
    ELSE CASE call.event.apiPath = "/get-pods" -> "get_pods_from_cluster"
           [] call.event.apiPath \in {"/analyze-namespace", "/get-cluster-health"}
                -> "get_cluster_data_with_real_kubernetes_api"
           [] call.event.apiPath = "/check-nodes" -> "check_nodes"
           [] call.event.apiPath = "/describe-pod" -> "describe_pod"
           [] OTHER -> ""

RunsOperation == IsOperationCall \/ (WellFormed /\ OperationOf # "")

\* Credential lookup reports NotFound for position i.
NotFound(i) == ~world[i].describe \/ osEnviron.KUBERNETES_TOKEN \in {NoVal, ""}

\* Position i answers with a usable body: HTTP 200/201, a JSON object.
Answered(i) ==
    /\ ~NotFound(i)
    /\ ~world[i].resp.transport
    /\ world[i].resp.status \in {200, 201}
    /\ world[i].resp.body.json = "dict"

\* Position i answers with a body the projection cannot read.
Unprojectable(i) ==
    /\ ~NotFound(i)
    /\ ~world[i].resp.transport
    /\ world[i].resp.status \in {200, 201}
    /\ \/ world[i].resp.body.json = "list"
       \/ /\ world[i].resp.body.json = "dict"
          /\ IF OperationOf = "describe_pod" THEN ~world[i].resp.body.pod.complete
             ELSE \E k \in 1..Len(world[i].resp.body.items) : ~world[i].resp.body.items[k].complete

Succeeded(i) == Answered(i) /\ ~Unprojectable(i)

\* Number of entries position i adds to the aggregate when it succeeds.
EntriesOf(i) ==
    IF ~Succeeded(i) THEN 0
    ELSE IF OperationOf \in {"describe_pod", "get_cluster_data_with_real_kubernetes_api"} THEN 1
    ELSE Len(world[i].resp.body.items)

RECURSIVE SumEntries(_)
SumEntries(n) == IF n = 0 THEN 0 ELSE SumEntries(n - 1) + EntriesOf(n)

\* C1: for a recognized identifier (and for each operation called on any
\* cluster list) the body's clusters_checked is the configured cluster list, in
\* order, in the normal envelope and in the operation's error envelope.
C1_ClustersChecked ==
    (pc = "done" /\ RunsOperation) =>
        /\ ~ret.raised
        /\ "clusters_checked" \in ret.envelope.keys
        /\ ret.envelope.clusters_checked = ConfiguredClusters

C1_Witness ==
    /\ pc = "done" /\ WellFormed /\ OperationOf = "get_pods_from_cluster"
    /\ "error" \in ret.envelope.keys
    /\ ret.envelope.clusters_checked = <<"c2">>

\* C2: an identifier the router does not recognize gives status 200 with a
\* body naming the identifier and the valid identifiers, no lookup and no
\* request; an identifier is listed as valid iff the router dispatches it.
C2_UnknownPath ==
    (pc = "done" /\ WellFormed) =>
        /\ (call.event.apiPath \in Range(ret.envelope.available_paths)
                => call.event.apiPath \in RecognizedPaths)
        /\ "clusters_checked" \in ret.envelope.keys <=> call.event.apiPath \in RecognizedPaths
        /\ call.event.apiPath \notin RecognizedPaths =>
            /\ ~ret.raised
            /\ ret.response.httpStatusCode = 200
            /\ ret.response.apiPath = call.event.apiPath
            /\ ret.envelope.keys = {"error", "available_paths"}
            /\ ret.envelope.error = <<"Unknown API path: ", call.event.apiPath>>
            /\ Range(ret.envelope.available_paths) = RecognizedPaths
            /\ k8sRequests = <<>>
            /\ configLookups = <<>>

C2_Witness ==
    /\ pc = "done" /\ WellFormed /\ call.event.apiPath = "/restart-pod"
    /\ ret.response.httpStatusCode = 200
    /\ "available_paths" \in ret.envelope.keys

\* C3 (as claimed): over two or more clusters, a failure of one cluster of
\* any kind leaves every cluster attempted and every successful cluster's
\* records in the aggregate.
C3_FailureIsolated ==
    (pc = "done" /\ IsOperationCall /\ Len(call.clusters) >= 2) =>
        /\ Len(configLookups) = Len(call.clusters)
        /\ Len(ret.envelope.results) = SumEntries(Len(call.clusters))

\* C4: a cluster whose credential lookup reports NotFound is sent no request,
\* adds no entry to the aggregate, raises no error field, and is still named
\* in clusters_checked.
C4_NotFoundSkipped ==
    (pc = "done" /\ RunsOperation) =>
        LET n == Len(ConfiguredClusters) IN
        /\ \A i \in 1..n : NotFound(i) =>
            /\ \A k \in 1..Len(k8sRequests) : k8sRequests[k].pos # i
            /\ ret.envelope.clusters_checked[i] = ConfiguredClusters[i]
        /\ "error" \in ret.envelope.keys => \E i \in 1..n : Unprojectable(i)
        /\ "error" \notin ret.envelope.keys =>
                Len(ret.envelope.results) = SumEntries(n)

C4_Witness ==
    /\ pc = "done" /\ IsOperationCall /\ Len(call.clusters) = 2
    /\ NotFound(1) /\ Succeeded(2)
    /\ Len(configLookups) = 2
    /\ "error" \notin ret.envelope.keys
    /\ Len(ret.envelope.results) = 2

\* C5: a well-formed event never gives 500, whatever the clusters do; 500 is
\* the answer only to an event the handler itself fails on.
C5_No500OnClusterFailure ==
    (pc = "done" /\ IsHandlerCall) =>
        /\ WellFormed => (~ret.raised /\ ret.response.httpStatusCode = 200)
        /\ ret.response.httpStatusCode = 500 => ~WellFormed

C5_Witness ==
    /\ pc = "done" /\ WellFormed /\ OperationOf = "get_pods_from_cluster"
    /\ Unprojectable(1)
    /\ "error" \in ret.envelope.keys
    /\ ret.response.httpStatusCode = 200

\* C6 (as claimed): /create-pod sends one POST per configured cluster and
\* returns one result per cluster.
C6_CreatePod ==
    (pc = "done" /\ WellFormed /\ call.event.apiPath = "/create-pod" /\ ~NotFound(1)) =>
        /\ Len(k8sRequests) = Len(ConfiguredClusters)
        /\ \A k \in 1..Len(k8sRequests) : k8sRequests[k].method = "POST"
        /\ Len(ret.envelope.results) = Len(ConfiguredClusters)


\* C11 (as claimed): every invocation of the handler, on any inbound event,
\* returns a well-formed outbound envelope with status 200 or 500 and lets no
\* exception reach its caller.
C11_AlwaysEnvelope ==
    (pc = "done" /\ IsHandlerCall) =>
        /\ ~ret.raised
        /\ ret.response.messageVersion = "1.0"
        /\ ret.response.httpStatusCode \in {200, 500}
        /\ ret.response.actionGroup = call.event.actionGroup
        /\ ret.response.apiPath = call.event.apiPath
        /\ ret.response.httpMethod = call.event.httpMethod

\* ================================================================ SpecNodes
\* check_nodes on one cluster that answers with one node; the node's
\* condition list is the input.
NodeWith(conds) == [name |-> "node-1", phase |-> NoVal, complete |-> TRUE, conditions |-> conds]
ConditionLists == SeqsUpTo(Conditions, MaxConditions)

InitNodes ==
    /\ pc = "start"
    /\ call = OperationCall("check_nodes", <<"c1">>, "", "")
    /\ osEnviron = [CLUSTER_NAME |-> NoVal, KUBERNETES_TOKEN |-> "tokA"]
    /\ world \in {<<[describe |-> TRUE,
                     resp |-> Http(200, Body("dict", <<NodeWith(conds)>>, ItemBad))]>> :
                    conds \in ConditionLists}
    /\ ret = NoRet
    /\ k8sRequests = <<>>
    /\ configLookups = <<>>
    /\ StoreIdle

SpecNodes == InitNodes /\ [][CheckNodes]_vars

NodeConditions == world[1].resp.body.items[1].conditions

\* C9: a node is reported Ready iff some condition has type Ready and status
\* True, and NotReady otherwise.
C9_ReadyIffReadyTrue ==
    pc = "done" =>
        /\ Len(ret.envelope.results) = 1
        /\ ret.envelope.results[1].status \in {"Ready", "NotReady"}
        /\ ret.envelope.results[1].status = "Ready" <=>
              \E k \in 1..Len(NodeConditions) :
                  NodeConditions[k].type = "Ready" /\ NodeConditions[k].status = "True"

C9_Witness ==
    /\ pc = "done"
    /\ NodeConditions = <<[type |-> "Ready", status |-> "False"],
                          [type |-> "MemoryPressure", status |-> "True"]>>
    /\ ret.envelope.results[1].status = "NotReady"

\* ============================================================== SpecRequest
\* One call of make_k8s_request; the method and what the HTTP layer gives
\* back are the inputs.
RequestMethods == {"GET", "POST", "PUT"}
RequestStatuses == {200, 201, 204, 401, 404, 409, 500}
RequestResponses == {TransportError} \cup {Http(st, b) : st \in RequestStatuses, b \in Bodies}
RequestUrl == Url("https://c1", <<"pods">>)

InitRequest ==
    /\ pc = "start"
    /\ call \in {Call("make_k8s_request", NoEvent, <<>>, "", "", m, r, <<>>) :
                    m \in RequestMethods, r \in RequestResponses}
    /\ osEnviron = [CLUSTER_NAME |-> NoVal, KUBERNETES_TOKEN |-> "tokA"]
    /\ world = <<>>
    /\ ret = NoRet
    /\ k8sRequests = <<>>
    /\ configLookups = <<>>
    /\ StoreIdle

MakeK8sRequest ==
    /\ pc = "start"
    /\ call.fn = "make_k8s_request"
    /\ LET r == make_k8s_request(RequestUrl, osEnviron.KUBERNETES_TOKEN, call.method, call.resp)
       IN  /\ ret' = [NoRet EXCEPT !.value = r]
           /\ k8sRequests' = Sent(1, RequestUrl, osEnviron.KUBERNETES_TOKEN, call.method, r)
    /\ pc' = "done"
    /\ UNCHANGED <<call, osEnviron, world, configLookups, storeVars>>

SpecRequest == InitRequest /\ [][MakeK8sRequest]_vars

\* C10 (as claimed): with GET or POST, a value is returned only for HTTP 200
\* on GET and HTTP 200 or 201 on POST, and exactly one request is sent.
C10_StrictSuccess ==
    (pc = "done" /\ call.method \in {"GET", "POST"}) =>
        /\ Len(k8sRequests) = 1
        /\ ~ret.value.none =>
              /\ ~call.resp.transport
              /\ call.resp.body.json # "invalid"
              /\ \/ call.method = "GET" /\ call.resp.status = 200
                 \/ call.method = "POST" /\ call.resp.status \in {200, 201}


\* ================================================================ SpecStore
\* The two publishers (the scheduled token_refresher Lambda and the
\* token_manager script) and gateway invocations running beside them.  The
\* credential store is the Environment Variables of the gateway's function
\* configuration, replaced whole by update_function_configuration.

\* How obtaining the token ends: the kubeconfig update fails, reading the
\* secret fails, the base64/utf-8 decode fails, the secret holds an empty
\* token, or a token is read.
TokenOutcomes == {"kubeconfig_failed", "secret_failed", "decode_failed", "empty", "ok"}
FreshTokens == {"tokA", "tokB"}

\* token_refresher's own environment.
RefresherEnviron == [TARGET_LAMBDA_FUNCTION |-> "k8s-sre-tools", CLUSTER_NAME |-> "c2"]

\* token_refresher.get_kubernetes_token: every exception is caught and gives
\* None; an empty secret decodes to "".
get_kubernetes_token(cluster_name, outcome, fresh) ==
    IF outcome = "ok" THEN fresh
    ELSE IF outcome = "empty" THEN ""
    ELSE NoVal

\* update_lambda_environment: one update_function_configuration call that
\* replaces the whole variable map, or an exception and no change.  Of the
\* map only the variables the gateway reads are kept.
update_lambda_environment(config, token, cluster_name, updateOk) ==
    IF updateOk
    THEN [success |-> TRUE,
          config |-> [CLUSTER_NAME |-> cluster_name, KUBERNETES_TOKEN |-> token]]
    ELSE [success |-> FALSE, config |-> config]

CycleResult(code, raised, config, published) ==
    [statusCode |-> code, raised |-> raised, config |-> config, published |-> published]

refresher_lambda_handler_publishes_empty(config, env, outcome, fresh, updateOk) ==
    LET token == get_kubernetes_token(env.CLUSTER_NAME, outcome, fresh)
    IN  IF token = NoVal THEN CycleResult(500, FALSE, config, FALSE)
        ELSE LET u == update_lambda_environment(config, token, env.CLUSTER_NAME, updateOk)
             IN  IF u.success THEN CycleResult(200, FALSE, u.config, TRUE)
                 ELSE CycleResult(500, FALSE, config, FALSE)

\* token_refresher.lambda_handler
refresher_lambda_handler(config, env, outcome, fresh, updateOk) ==
    LET token == get_kubernetes_token(env.CLUSTER_NAME, outcome, fresh)
    IN  IF Falsy(token) THEN CycleResult(500, FALSE, config, FALSE)
        ELSE LET u == update_lambda_environment(config, token, env.CLUSTER_NAME, updateOk)
             IN  IF u.success THEN CycleResult(200, FALSE, u.config, TRUE)
                 ELSE CycleResult(500, FALSE, config, FALSE)

\* token_manager.update_lambda_token: the same call with the cluster name
\* written into the script.
update_lambda_token(config, token, updateOk) ==
    IF updateOk
    THEN [success |-> TRUE,
          config |-> [CLUSTER_NAME |-> DefaultClusterName, KUBERNETES_TOKEN |-> token]]
    ELSE [success |-> FALSE, config |-> config]

\* token_manager.main: get_kubernetes_token catches CalledProcessError only, so
\* a failed decode leaves main as an exception; the script has no status code.
token_manager_main(config, outcome, fresh, updateOk) ==
    IF outcome = "decode_failed" THEN CycleResult(0, TRUE, config, FALSE)
    ELSE LET token == IF outcome = "ok" THEN fresh
                      ELSE IF outcome = "empty" THEN "" ELSE NoVal
         IN  IF Falsy(token) THEN CycleResult(0, FALSE, config, FALSE)
             ELSE LET u == update_lambda_token(config, token, updateOk)
                  IN  CycleResult(0, FALSE, u.config, u.success)

\* A gateway invocation: idle, started (the handler has read CLUSTER_NAME,
\* line 45) or configured (get_kubernetes_config has read the token, line
\* 122).  environ is os.environ of the process serving the invocation.
IdleInvocation ==
    [at |-> "idle", environ |-> DeployedConfig, clusters |-> <<>>,
     cred |-> NoConfig, publishesAtRead |-> 0, storeAtRead |-> DeployedConfig]
InvocationIds == {"inv1", "inv2"}

InitStore ==
    /\ pc = "start"
    /\ call = HandlerCall(NoEvent)
    /\ osEnviron = DeployedConfig
    /\ world = <<>>
    /\ ret = NoRet
    /\ k8sRequests = <<>>
    /\ configLookups = <<>>
    /\ lambdaConfig = DeployedConfig
    /\ lastCycle = NoCycle
    /\ publishes = 0
    /\ failedCycles = 0
    /\ invocations = [i \in InvocationIds |-> IdleInvocation]

EndCycle(who, outcome, fresh, r) ==
    /\ lambdaConfig' = r.config
    /\ lastCycle' = [who |-> who, outcome |-> outcome, fresh |-> fresh,
                     statusCode |-> r.statusCode, raised |-> r.raised,
                     published |-> r.published, before |-> lambdaConfig]
    /\ publishes' = IF r.published THEN publishes + 1 ELSE publishes
    /\ failedCycles' = IF r.published THEN failedCycles ELSE failedCycles + 1
    /\ UNCHANGED <<gatewayVars, invocations>>

RefreshCycle ==
    /\ publishes + failedCycles < MaxCycles
    /\ \E outcome \in TokenOutcomes, fresh \in FreshTokens, updateOk \in BOOLEAN :
          EndCycle("token_refresher", outcome, fresh,
                   refresher_lambda_handler(lambdaConfig, RefresherEnviron, outcome, fresh, updateOk))

TokenManagerRun ==
    /\ publishes + failedCycles < MaxCycles
    /\ \E outcome \in TokenOutcomes \ {"kubeconfig_failed"}, fresh \in FreshTokens,
          updateOk \in BOOLEAN :
          EndCycle("token_manager", outcome, fresh,
                   token_manager_main(lambdaConfig, outcome, fresh, updateOk))

\* Lambda starts the handler in a process whose environment holds the
\* function configuration; the handler reads CLUSTER_NAME (line 45).
StartInvocation(i) ==
    /\ invocations[i].at = "idle"
    /\ invocations' = [invocations EXCEPT ![i] =
            [IdleInvocation EXCEPT !.at = "started", !.environ = lambdaConfig,
                                   !.clusters = <<lambdaConfig.CLUSTER_NAME>>]]
    /\ UNCHANGED <<gatewayVars, lambdaConfig, lastCycle, publishes, failedCycles>>

\* get_kubernetes_config for the invocation's cluster: the token is read from
\* the environment of the process (line 122).
ReadCredential(i) ==
    /\ invocations[i].at = "started"
    /\ LET inv == invocations[i]
       IN  invocations' = [invocations EXCEPT ![i] =
              [inv EXCEPT !.at = "configured",
                          !.cred = get_kubernetes_config(inv.clusters[1], inv.environ,
                                                         [describe |-> TRUE]),
                          !.publishesAtRead = publishes,
                          !.storeAtRead = lambdaConfig]]
    /\ UNCHANGED <<gatewayVars, lambdaConfig, lastCycle, publishes, failedCycles>>

ReturnInvocation(i) ==
    /\ invocations[i].at = "configured"
    /\ invocations' = [invocations EXCEPT ![i] = IdleInvocation]
    /\ UNCHANGED <<gatewayVars, lambdaConfig, lastCycle, publishes, failedCycles>>

NextStore ==
    \/ RefreshCycle
    \/ TokenManagerRun
    \/ \E i \in InvocationIds : StartInvocation(i)
    \/ \E i \in InvocationIds : ReadCredential(i)
    \/ \E i \in InvocationIds : ReturnInvocation(i)

SpecStore == InitStore /\ [][NextStore]_vars

\* C7 (as claimed): a credential read that starts after the second publish
\* returns the credential of that publish in full.
C7_ReadAfterPublishIsCurrent ==
    \A i \in InvocationIds :
        (invocations[i].at = "configured" /\ invocations[i].publishesAtRead >= 2) =>
            /\ invocations[i].clusters = <<invocations[i].storeAtRead.CLUSTER_NAME>>
            /\ invocations[i].cred.token = invocations[i].storeAtRead.KUBERNETES_TOKEN

\* C8: a cycle that obtains no token publishes nothing and leaves the store as
\* it was, the refresher answering 500; 200 is answered only after a completed
\* publish; a later cycle can publish again.
C8_FailedCycleKeepsStore ==
    lastCycle.who # NoVal =>
        /\ lastCycle.outcome # "ok" =>
              /\ ~lastCycle.published
              /\ lambdaConfig = lastCycle.before
              /\ lastCycle.who = "token_refresher" => lastCycle.statusCode = 500
        /\ lastCycle.statusCode = 200 =>
              /\ lastCycle.published
              /\ lambdaConfig.KUBERNETES_TOKEN = lastCycle.fresh
        /\ ~lastCycle.published => lambdaConfig = lastCycle.before

C8_Witness ==
    /\ failedCycles >= 1
    /\ lastCycle.before = DeployedConfig
    /\ lastCycle.who = "token_refresher"
    /\ lastCycle.statusCode = 200
    /\ lambdaConfig = [CLUSTER_NAME |-> "c2", KUBERNETES_TOKEN |-> "tokB"]

====
